---- MODULE Spec2Model ----
(***************************************************************************)
(* Model of core/text_to_speech.py (class TextToSpeech): the synthesis     *)
(* facade with its structured-client -> REST fallback chain, the byte      *)
(* extraction from the structured response, the artifact writer, the       *)
(* batch loop and the streaming generator.                                 *)
(*                                                                         *)
(* stability and similarity are passed through to the provider unchanged   *)
(* and never read by the control flow, so they are not part of the state.  *)
(***************************************************************************)
EXTENDS Integers, Sequences, FiniteSets, TLC

\* ------------------------------------------------------------------ bounds
MaxLen == 1        \* longest REST body / byte buffer / content value
MaxChunks == 2     \* most chunks an iterable response or a stream delivers
MaxClock == 1      \* the wall clock takes the seconds 0..MaxClock
MaxCalls == 2      \* synthesize calls in one behaviour of SpecRepeat
MaxBatch == 2      \* longest list handed to batch_synthesize
MaxTextLen == 3    \* validate_text: longest text over Char, largest small max_length
LongTextLen == 12  \* validate_text: length of the one long text

\* ------------------------------------------------------------------ values
Byte == {0, 1}

RECURSIVE SeqsUpTo(_, _)
SeqsUpTo(S, n) ==
    IF n = 0 THEN {<<>>}
    ELSE LET shorter == SeqsUpTo(S, n - 1)
         IN  shorter \cup {Append(s, x) : s \in {t \in shorter : Len(t) = n - 1}, x \in S}

Bytes == SeqsUpTo(Byte, MaxLen)

\* Python's None where a byte buffer is expected, and a path with no file.
NoBytes == <<-1>>
Absent == <<-2>>

BytesOrNone == Bytes \cup {NoBytes}

\* One chunk of an iterable response or of a stream; b"" is a legal chunk.
Chunk == {<<>>} \cup {<<b>> : b \in Byte}
ChunkSeqs == SeqsUpTo(Chunk, MaxChunks)

\* b"".join(chunks)
RECURSIVE Join(_)
Join(chunks) ==
    IF chunks = <<>> THEN <<>> ELSE Head(chunks) \o Join(Tail(chunks))

Prefixes(b) == {SubSeq(b, 1, k) : k \in 0..Len(b)}

\* ------------------------------------------------------------------- paths
MkPath(prefix, idx, ts) == [prefix |-> prefix, idx |-> idx, ts |-> ts]

\* output_path=None, and the None that synthesize returns on failure
NoPath == MkPath("none", 0, 0)
\* a caller-chosen output_path
CustomPath == MkPath("custom", 0, 0)

\* datetime.now().strftime("%Y%m%d_%H%M%S"): the clock at one-second resolution
Timestamp(clock) == clock

\* self.output_dir / f"output_{timestamp}.mp3"
OutputFile(clock) == MkPath("output", 0, Timestamp(clock))
\* self.output_dir / f"multilingual_{timestamp}.mp3"
MultilingualFile(clock) == MkPath("multilingual", 0, Timestamp(clock))
\* self.output_dir / f"batch_{i+1}_{timestamp}.mp3"
BatchFile(i, clock) == MkPath("batch", i, Timestamp(clock))

\* ------------------------------------------------------------------ inputs
\* texts as character sequences: empty, whitespace-only, ordinary
Texts == {<<>>, <<" ">>, <<"x">>}
\* voice ids: empty (no such voice) and a known one
VoiceIds == {"", "v1"}

NoArgs == [text |-> <<>>, voice_id |-> "", output_path |-> NoPath]

\* ------------------------------------------- structured (SDK) responses
MkResp(hc, c, ib, d, it, ch, r) ==
    [hasContent |-> hc, content |-> c, isBytes |-> ib, data |-> d,
     iterable |-> it, chunks |-> ch, raises |-> r]

\* a value that is none of: content-bearing, byte buffer, iterable
OtherResp == MkResp(FALSE, NoBytes, FALSE, <<>>, FALSE, <<>>, FALSE)

\* objects exposing .content (possibly None), some of them iterable as well
ContentResps ==
    {MkResp(TRUE, c, FALSE, <<>>, FALSE, <<>>, FALSE) : c \in BytesOrNone}
    \cup {MkResp(TRUE, c, FALSE, <<>>, TRUE, <<<<0>>>>, FALSE) : c \in BytesOrNone}
\* bytes / bytearray
BytesResps == {MkResp(FALSE, NoBytes, TRUE, d, FALSE, <<>>, FALSE) : d \in Bytes}
\* generators of chunks, and iterables whose iteration raises
IterResps ==
    {MkResp(FALSE, NoBytes, FALSE, <<>>, TRUE, ch, FALSE) : ch \in ChunkSeqs}
    \cup {MkResp(FALSE, NoBytes, FALSE, <<>>, TRUE, <<>>, TRUE)}

Responses == ContentResps \cup BytesResps \cup IterResps \cup {OtherResp}

\* the tests in another order: iteration is tried before the content accessor
ExtractBytes_IterableFirst(resp) ==
    IF resp.iterable /\ ~resp.raises THEN Join(resp.chunks)
    ELSE IF resp.hasContent THEN resp.content
    ELSE IF resp.isBytes THEN resp.data
    ELSE NoBytes

\* a loop that keeps only the chunk it saw last instead of joining them
ExtractBytes_LastChunk(resp) ==
    IF resp.hasContent THEN resp.content
    ELSE IF resp.isBytes THEN resp.data
    ELSE IF resp.iterable /\ ~resp.raises
         THEN (IF resp.chunks = <<>> THEN <<>> ELSE resp.chunks[Len(resp.chunks)])
    ELSE NoBytes

\* Byte extraction from the value convert() returned.
ExtractBytes(resp) ==
    IF resp.hasContent THEN resp.content
    ELSE IF resp.isBytes THEN resp.data
    ELSE IF resp.iterable /\ ~resp.raises THEN Join(resp.chunks)
    ELSE NoBytes

NoSdk == [called |-> FALSE, raised |-> FALSE, resp |-> OtherResp]

\* ------------------------------------------------------- REST responses
Statuses == {200, 401}

NoRest == [called |-> FALSE, raised |-> FALSE, status |-> 0, body |-> <<>>]

\* requests.post(...) either raises or answers with a status and a body
RestOutcomes ==
    {[called |-> TRUE, raised |-> TRUE, status |-> 0, body |-> <<>>]}
    \cup {[called |-> TRUE, raised |-> FALSE, status |-> s, body |-> b] :
             s \in Statuses, b \in Bytes}

\* a status test against 201 instead of 200
RestGenerateBytes_Created(o) ==
    IF o.raised THEN NoBytes
    ELSE IF o.status = 201 THEN o.body
    ELSE NoBytes

\* a missing status test: the body of any answer is taken as audio
RestGenerateBytes_AnyStatus(o) ==
    IF o.raised THEN NoBytes ELSE o.body

\* _rest_generate_bytes: the body on HTTP 200, None otherwise or on an error
RestGenerateBytes(o) ==
    IF o.raised THEN NoBytes
    ELSE IF o.status = 200 THEN o.body
    ELSE NoBytes

\* ---------------------------------------------------------------- clients
\* what hasattr(self.client, 'text_to_speech') and hasattr(..., name) answer:
\* a client without the text_to_speech namespace, and one that has it with
\* both methods (no entry point reads more than one of the two answers);
\* generate is what hasattr(self.client, 'generate') answers
Clients == {[convert |-> c, stream |-> c, generate |-> c] : c \in BOOLEAN}

\* ------------------------------------------------------------------- state
VARIABLES
    client,       \* self.client, fixed at construction
    now,          \* wall clock, in seconds
    fs,           \* file system: path -> content, Absent when no file
    pc,           \* position inside synthesize
    args,         \* arguments of the running synthesize call
    audio_bytes,  \* local audio_bytes
    result,       \* value returned by synthesize
    fault,        \* TRUE when an exception left synthesize
    sdk,          \* what the structured call did in this call
    rest,         \* what the REST request did in this call
    wr,           \* what the file write did in this call
    events,       \* network and file operations of this call, in order
    fs0,          \* the file system when this call was entered
    prev,         \* the previous completed top-level call
    ncalls,       \* completed top-level calls
    bpc,          \* position inside batch_synthesize
    texts,        \* batch_synthesize: argument texts
    bi,           \* batch_synthesize: loop index i
    output_paths, \* batch_synthesize: local output_paths
    bresults,     \* batch_synthesize: what each synthesize call returned
    spc,          \* position inside the synthesize_streaming generator
    stream_gen,   \* the structured stream being iterated
    rest_stream,  \* the streamed REST response being iterated
    sidx,         \* chunks taken from the current stream
    yielded,      \* chunks delivered to the consumer, with their origin
    vcall,        \* validate_text: the arguments of the last call
    vout          \* validate_text: the tuple it returned

envVars == <<client, now, fs>>
callVars == <<pc, args, audio_bytes, result, fault, sdk, rest, wr, events, fs0>>
topVars == <<prev, ncalls>>
batchVars == <<bpc, texts, bi, output_paths, bresults>>
streamVars == <<spc, stream_gen, rest_stream, sidx, yielded>>
validateVars == <<vcall, vout>>

vars == <<envVars, callVars, topVars, batchVars, streamVars, validateVars>>

AllPaths ==
    {OutputFile(t) : t \in 0..MaxClock} \cup {CustomPath}
    \cup {MultilingualFile(t) : t \in 0..MaxClock}
    \cup {BatchFile(i, t) : i \in 1..MaxBatch, t \in 0..MaxClock}

\* the output directory at construction: empty, or with an older file at the
\* path a caller is about to name
EmptyFs == [p \in AllPaths |-> Absent]
InitialFileSystems ==
    {EmptyFs} \cup {[EmptyFs EXCEPT ![CustomPath] = c] : c \in Bytes}

NoValidateCall == [called |-> FALSE, text |-> <<>>, max_length |-> 0]
NoValidateOut == [valid |-> FALSE, message |-> <<>>]

NoPrev == [valid |-> FALSE, args |-> NoArgs, result |-> NoPath, bytes |-> NoBytes]

NoStreamGen == [opened |-> FALSE, setupRaised |-> FALSE, chunks |-> <<>>, breaks |-> FALSE]
NoRestStream ==
    [called |-> FALSE, raised |-> FALSE, status |-> 0, chunks |-> <<>>, breaks |-> FALSE]

Init ==
    /\ client \in Clients
    /\ now = 0
    /\ fs \in InitialFileSystems
    /\ pc = "idle"
    /\ args = NoArgs
    /\ audio_bytes = NoBytes
    /\ result = NoPath
    /\ fault = FALSE
    /\ sdk = NoSdk
    /\ rest = NoRest
    /\ wr = "none"
    /\ events = <<>>
    /\ fs0 = fs
    /\ prev = NoPrev
    /\ ncalls = 0
    /\ bpc = "idle"
    /\ texts = <<>>
    /\ bi = 0
    /\ output_paths = <<>>
    /\ bresults = <<>>
    /\ spc = "idle"
    /\ stream_gen = NoStreamGen
    /\ rest_stream = NoRestStream
    /\ sidx = 0
    /\ yielded = <<>>
    /\ vcall = NoValidateCall
    /\ vout = NoValidateOut

\* the clock advances at any moment
Tick ==
    /\ now < MaxClock
    /\ now' = now + 1
    /\ UNCHANGED <<client, fs, callVars, topVars, batchVars, streamVars>>
    /\ UNCHANGED validateVars

\* entry into synthesize: locals of the new call
Enter(a) ==
    /\ args' = a
    /\ pc' = "probe"
    /\ audio_bytes' = NoBytes
    /\ result' = NoPath
    /\ fault' = FALSE
    /\ sdk' = NoSdk
    /\ rest' = NoRest
    /\ wr' = "none"
    /\ events' = <<>>
    /\ fs0' = fs

\* a caller invokes synthesize(text, voice_id, output_path=...)
SynthesizeCall ==
    /\ pc = "idle"
    /\ bpc = "idle"
    /\ ncalls < MaxCalls
    /\ \E t \in Texts, v \in VoiceIds, o \in {NoPath, CustomPath} :
           Enter([text |-> t, voice_id |-> v, output_path |-> o])
    /\ UNCHANGED <<envVars, topVars, batchVars, streamVars>>
    /\ UNCHANGED validateVars

\* the capability check fails: straight to the REST request
ConvertUnavailable ==
    /\ pc = "probe"
    /\ ~client.convert
    /\ pc' = "rest"
    /\ UNCHANGED <<args, audio_bytes, result, fault, sdk, rest, wr, events, fs0>>
    /\ UNCHANGED <<envVars, topVars, batchVars, streamVars>>
    /\ UNCHANGED validateVars

\* client.text_to_speech.convert(...) returns; bytes are extracted from it
SdkConvertReturns ==
    /\ pc = "probe"
    /\ client.convert
    /\ \E resp \in Responses :
           /\ sdk' = [called |-> TRUE, raised |-> FALSE, resp |-> resp]
           /\ audio_bytes' = ExtractBytes(resp)
    /\ events' = Append(events, "sdk")
    /\ pc' = "check"
    /\ UNCHANGED <<args, result, fault, rest, wr, fs0>>
    /\ UNCHANGED <<envVars, topVars, batchVars, streamVars>>
    /\ UNCHANGED validateVars

\* client.text_to_speech.convert(...) raises: the handler turns to REST
SdkConvertRaises ==
    /\ pc = "probe"
    /\ client.convert
    /\ sdk' = [called |-> TRUE, raised |-> TRUE, resp |-> OtherResp]
    /\ events' = Append(events, "sdk")
    /\ pc' = "rest"
    /\ UNCHANGED <<args, audio_bytes, result, fault, rest, wr, fs0>>
    /\ UNCHANGED <<envVars, topVars, batchVars, streamVars>>
    /\ UNCHANGED validateVars

\* self._rest_generate_bytes(...)
RestGenerate ==
    /\ pc = "rest"
    /\ \E o \in RestOutcomes :
           /\ rest' = o
           /\ audio_bytes' = RestGenerateBytes(o)
    /\ events' = Append(events, "rest")
    /\ pc' = "check"
    /\ UNCHANGED <<args, result, fault, sdk, wr, fs0>>
    /\ UNCHANGED <<envVars, topVars, batchVars, streamVars>>
    /\ UNCHANGED validateVars

\* a retry: on no audio the REST request is made (again) before giving up
NoAudio_RetryRest ==
    /\ pc = "check"
    /\ audio_bytes = NoBytes
    /\ IF Len(events) < 3
       THEN pc' = "rest" /\ result' = result
       ELSE pc' = "done" /\ result' = NoPath
    /\ UNCHANGED <<args, audio_bytes, fault, sdk, rest, wr, events, fs0>>
    /\ UNCHANGED <<envVars, topVars, batchVars, streamVars>>
    /\ UNCHANGED validateVars

\* if audio_bytes is None: return None
NoAudio ==
    /\ pc = "check"
    /\ audio_bytes = NoBytes
    /\ result' = NoPath
    /\ pc' = "done"
    /\ UNCHANGED <<args, audio_bytes, fault, sdk, rest, wr, events, fs0>>
    /\ UNCHANGED <<envVars, topVars, batchVars, streamVars>>
    /\ UNCHANGED validateVars

\* the path synthesize writes to
TargetPath(a, clock) ==
    IF a.output_path = NoPath THEN OutputFile(clock) ELSE a.output_path

\* a handler that lets the exception leave synthesize
SynthesizeExcept_Reraise == [result |-> NoPath, fault |-> TRUE]

\* except Exception as e: ... return None
SynthesizeExcept == [result |-> NoPath, fault |-> FALSE]

\* open(output_path, 'wb'), f.write(audio_bytes), return str(output_path);
\* open may fail, and the write may fail after open has truncated the file
SaveFile ==
    /\ pc = "check"
    /\ audio_bytes # NoBytes
    /\ LET path == TargetPath(args, now) IN
       \/ /\ wr' = "ok"
          /\ fs' = [fs EXCEPT ![path] = audio_bytes]
          /\ result' = path
          /\ fault' = FALSE
       \/ /\ wr' = "open_failed"
          /\ fs' = fs
          /\ result' = SynthesizeExcept.result
          /\ fault' = SynthesizeExcept.fault
       \/ /\ wr' = "write_failed"
          /\ \E p \in Prefixes(audio_bytes) : fs' = [fs EXCEPT ![path] = p]
          /\ result' = SynthesizeExcept.result
          /\ fault' = SynthesizeExcept.fault
    /\ events' = Append(events, "write")
    /\ pc' = "done"
    /\ UNCHANGED <<client, now, args, audio_bytes, sdk, rest, fs0>>
    /\ UNCHANGED <<topVars, batchVars, streamVars>>
    /\ UNCHANGED validateVars

\* the locals of a call that has returned
Leave ==
    /\ pc' = "idle"
    /\ args' = NoArgs
    /\ audio_bytes' = NoBytes
    /\ result' = NoPath
    /\ sdk' = NoSdk
    /\ rest' = NoRest
    /\ wr' = "none"
    /\ events' = <<>>
    /\ fs0' = fs
    /\ UNCHANGED fault

\* synthesize has returned to its top-level caller
SynthesizeReturn ==
    /\ pc = "done"
    /\ bpc = "idle"
    /\ prev' = [valid |-> TRUE, args |-> args, result |-> result,
                bytes |-> IF result = NoPath THEN NoBytes ELSE audio_bytes]
    /\ ncalls' = ncalls + 1
    /\ Leave
    /\ UNCHANGED <<envVars, batchVars, streamVars>>
    /\ UNCHANGED validateVars

\* ---------------------------------------------------------- batch_synthesize
\* the lists handed in: the prefixes of <<"x", "", "x", ...>>
BatchInputs ==
    {[i \in 1..n |-> IF i % 2 = 0 THEN <<>> ELSE <<"x">>] : n \in 0..MaxBatch}

\* a caller invokes batch_synthesize(texts, voice_id)
BatchCall ==
    /\ bpc = "idle"
    /\ pc = "idle"
    /\ \E ts \in BatchInputs : texts' = ts
    /\ bi' = 0
    /\ output_paths' = <<>>
    /\ bresults' = <<>>
    /\ bpc' = "loop"
    /\ UNCHANGED <<envVars, callVars, topVars, streamVars>>
    /\ UNCHANGED validateVars

\* loop body up to the call: timestamp, filename, synthesize(..., output_path)
BatchIterate ==
    /\ bpc = "loop"
    /\ pc = "idle"
    /\ bi < Len(texts)
    /\ Enter([text |-> texts[bi + 1], voice_id |-> "v1",
              output_path |-> BatchFile(bi + 1, now)])
    /\ UNCHANGED <<envVars, topVars, batchVars, streamVars>>
    /\ UNCHANGED validateVars

\* a loop that appends whatever synthesize returned
BatchKeep_Always(r) == TRUE

\* if result:
BatchKeep(r) == r # NoPath

\* synthesize has returned into the loop: output_paths.append(result)
BatchCollect ==
    /\ bpc = "loop"
    /\ pc = "done"
    /\ output_paths' = IF BatchKeep(result) THEN Append(output_paths, result)
                       ELSE output_paths
    /\ bresults' = Append(bresults, [result |-> result, ok |-> wr = "ok"])
    /\ bi' = bi + 1
    /\ Leave
    /\ UNCHANGED <<bpc, texts>>
    /\ UNCHANGED <<envVars, topVars, streamVars>>
    /\ UNCHANGED validateVars

\* the loop is exhausted: return output_paths
BatchReturn ==
    /\ bpc = "loop"
    /\ pc = "idle"
    /\ bi = Len(texts)
    /\ bpc' = "done"
    /\ UNCHANGED <<texts, bi, output_paths, bresults>>
    /\ UNCHANGED <<envVars, callVars, topVars, streamVars>>
    /\ UNCHANGED validateVars

\* -------------------------------------------------------- synthesize_streaming
\* the consumer asks the generator for its first chunk
StreamCall ==
    /\ spc = "idle"
    /\ spc' = "probe"
    /\ UNCHANGED <<stream_gen, rest_stream, sidx, yielded>>
    /\ UNCHANGED <<envVars, callVars, topVars, batchVars>>
    /\ UNCHANGED validateVars

\* the capability check fails: straight to the REST request
StreamUnavailable ==
    /\ spc = "probe"
    /\ ~client.stream
    /\ spc' = "rest"
    /\ UNCHANGED <<stream_gen, rest_stream, sidx, yielded>>
    /\ UNCHANGED <<envVars, callVars, topVars, batchVars>>
    /\ UNCHANGED validateVars

\* client.text_to_speech.stream(...) raises
SdkStreamRaises ==
    /\ spc = "probe"
    /\ client.stream
    /\ stream_gen' = [opened |-> FALSE, setupRaised |-> TRUE, chunks |-> <<>>,
                      breaks |-> FALSE]
    /\ spc' = "rest"
    /\ UNCHANGED <<rest_stream, sidx, yielded>>
    /\ UNCHANGED <<envVars, callVars, topVars, batchVars>>
    /\ UNCHANGED validateVars

\* client.text_to_speech.stream(...) returns an iterator: it will deliver
\* chunks and then either end or raise
SdkStreamOpens ==
    /\ spc = "probe"
    /\ client.stream
    /\ \E ch \in ChunkSeqs, br \in BOOLEAN :
           stream_gen' = [opened |-> TRUE, setupRaised |-> FALSE, chunks |-> ch,
                          breaks |-> br]
    /\ sidx' = 0
    /\ spc' = "sdk_iter"
    /\ UNCHANGED <<rest_stream, yielded>>
    /\ UNCHANGED <<envVars, callVars, topVars, batchVars>>
    /\ UNCHANGED validateVars

\* for chunk in stream_gen: yield chunk
SdkStreamYield ==
    /\ spc = "sdk_iter"
    /\ sidx < Len(stream_gen.chunks)
    /\ yielded' = Append(yielded, [src |-> "sdk", chunk |-> stream_gen.chunks[sidx + 1]])
    /\ sidx' = sidx + 1
    /\ UNCHANGED <<spc, stream_gen, rest_stream>>
    /\ UNCHANGED <<envVars, callVars, topVars, batchVars>>
    /\ UNCHANGED validateVars

\* the structured stream is exhausted: return
SdkStreamEnds ==
    /\ spc = "sdk_iter"
    /\ sidx = Len(stream_gen.chunks)
    /\ ~stream_gen.breaks
    /\ spc' = "done"
    /\ UNCHANGED <<stream_gen, rest_stream, sidx, yielded>>
    /\ UNCHANGED <<envVars, callVars, topVars, batchVars>>
    /\ UNCHANGED validateVars

\* the structured stream raises while being iterated: except Exception: pass
SdkStreamBreaks ==
    /\ spc = "sdk_iter"
    /\ sidx = Len(stream_gen.chunks)
    /\ stream_gen.breaks
    /\ spc' = "rest"
    /\ UNCHANGED <<stream_gen, rest_stream, sidx, yielded>>
    /\ UNCHANGED <<envVars, callVars, topVars, batchVars>>
    /\ UNCHANGED validateVars

\* requests.post(url, ..., stream=True): raises, answers non-200, or answers
\* 200 with a body that iter_content will deliver in chunks
RestStreamPost ==
    /\ spc = "rest"
    /\ \/ /\ rest_stream' = [called |-> TRUE, raised |-> TRUE, status |-> 0,
                             chunks |-> <<>>, breaks |-> FALSE]
          /\ spc' = "done"
       \/ /\ \E s \in Statuses \ {200} :
                rest_stream' = [called |-> TRUE, raised |-> FALSE, status |-> s,
                                chunks |-> <<>>, breaks |-> FALSE]
          /\ spc' = "done"
       \/ /\ \E ch \in ChunkSeqs, br \in BOOLEAN :
                rest_stream' = [called |-> TRUE, raised |-> FALSE, status |-> 200,
                                chunks |-> ch, breaks |-> br]
          /\ spc' = "rest_iter"
    /\ sidx' = 0
    /\ UNCHANGED <<stream_gen, yielded>>
    /\ UNCHANGED <<envVars, callVars, topVars, batchVars>>
    /\ UNCHANGED validateVars

\* if chunk:
KeepChunk(chunk) == chunk # <<>>

\* for chunk in resp.iter_content(...): if chunk: yield chunk
RestStreamChunk ==
    /\ spc = "rest_iter"
    /\ sidx < Len(rest_stream.chunks)
    /\ LET chunk == rest_stream.chunks[sidx + 1] IN
           yielded' = IF KeepChunk(chunk)
                      THEN Append(yielded, [src |-> "rest", chunk |-> chunk])
                      ELSE yielded
    /\ sidx' = sidx + 1
    /\ UNCHANGED <<spc, stream_gen, rest_stream>>
    /\ UNCHANGED <<envVars, callVars, topVars, batchVars>>
    /\ UNCHANGED validateVars

\* the body is exhausted, or the connection fails and the outer handler
\* ends the generator
RestStreamEnds ==
    /\ spc = "rest_iter"
    /\ sidx = Len(rest_stream.chunks)
    /\ spc' = "done"
    /\ UNCHANGED <<stream_gen, rest_stream, sidx, yielded>>
    /\ UNCHANGED <<envVars, callVars, topVars, batchVars>>
    /\ UNCHANGED validateVars

\* ------------------------------------------------------ synthesize_multilingual
\* whether b"".join(audio_generator) raises: iteration raises, the value is
\* not iterable, or it is a non-empty byte buffer (whose items are ints)
JoinRaises(resp) ==
    IF resp.isBytes THEN resp.data # <<>>
    ELSE ~resp.iterable \/ resp.raises

\* b"".join(audio_generator), when it does not raise
JoinGenerator(resp) ==
    IF resp.isBytes THEN <<>> ELSE Join(resp.chunks)

\* a caller invokes synthesize_multilingual(text, voice_id)
MultilingualCall ==
    /\ pc = "idle"
    /\ bpc = "idle"
    /\ \E t \in Texts, v \in VoiceIds :
           args' = [text |-> t, voice_id |-> v, output_path |-> NoPath]
    /\ pc' = "mprobe"
    /\ audio_bytes' = NoBytes
    /\ result' = NoPath
    /\ fault' = FALSE
    /\ sdk' = NoSdk
    /\ rest' = NoRest
    /\ wr' = "none"
    /\ events' = <<>>
    /\ fs0' = fs
    /\ UNCHANGED <<envVars, topVars, batchVars, streamVars>>
    /\ UNCHANGED validateVars

\* the capability check fails: straight to the REST request
GenerateUnavailable ==
    /\ pc = "mprobe"
    /\ ~client.generate
    /\ pc' = "mrest"
    /\ UNCHANGED <<args, audio_bytes, result, fault, sdk, rest, wr, events, fs0>>
    /\ UNCHANGED <<envVars, topVars, batchVars, streamVars>>
    /\ UNCHANGED validateVars

\* client.generate(...) returns and b"".join(audio_generator) succeeds
SdkGenerateReturns ==
    /\ pc = "mprobe"
    /\ client.generate
    /\ \E resp \in Responses :
           /\ ~JoinRaises(resp)
           /\ sdk' = [called |-> TRUE, raised |-> FALSE, resp |-> resp]
           /\ audio_bytes' = JoinGenerator(resp)
    /\ events' = Append(events, "sdk")
    /\ pc' = "mcheck"
    /\ UNCHANGED <<args, result, fault, rest, wr, fs0>>
    /\ UNCHANGED <<envVars, topVars, batchVars, streamVars>>
    /\ UNCHANGED validateVars

\* client.generate(...) raises, or b"".join(audio_generator) raises: the
\* handler turns to REST
SdkGenerateRaises ==
    /\ pc = "mprobe"
    /\ client.generate
    /\ \/ sdk' = [called |-> TRUE, raised |-> TRUE, resp |-> OtherResp]
       \/ \E resp \in Responses :
              /\ JoinRaises(resp)
              /\ sdk' = [called |-> TRUE, raised |-> FALSE, resp |-> resp]
    /\ events' = Append(events, "sdk")
    /\ pc' = "mrest"
    /\ UNCHANGED <<args, audio_bytes, result, fault, rest, wr, fs0>>
    /\ UNCHANGED <<envVars, topVars, batchVars, streamVars>>
    /\ UNCHANGED validateVars

\* self._rest_generate_bytes(..., model="eleven_multilingual_v2")
MultilingualRest ==
    /\ pc = "mrest"
    /\ \E o \in RestOutcomes :
           /\ rest' = o
           /\ audio_bytes' = RestGenerateBytes(o)
    /\ events' = Append(events, "rest")
    /\ pc' = "mcheck"
    /\ UNCHANGED <<args, result, fault, sdk, wr, fs0>>
    /\ UNCHANGED <<envVars, topVars, batchVars, streamVars>>
    /\ UNCHANGED validateVars

\* if audio_bytes is None: return None
MultilingualNoAudio ==
    /\ pc = "mcheck"
    /\ audio_bytes = NoBytes
    /\ result' = NoPath
    /\ pc' = "mdone"
    /\ UNCHANGED <<args, audio_bytes, fault, sdk, rest, wr, events, fs0>>
    /\ UNCHANGED <<envVars, topVars, batchVars, streamVars>>
    /\ UNCHANGED validateVars

\* except Exception as e: ... return None
MultilingualExcept == [result |-> NoPath, fault |-> FALSE]

\* timestamp, filename, open(output_path, 'wb'), f.write(audio_bytes)
MultilingualSave ==
    /\ pc = "mcheck"
    /\ audio_bytes # NoBytes
    /\ LET path == MultilingualFile(now) IN
       \/ /\ wr' = "ok"
          /\ fs' = [fs EXCEPT ![path] = audio_bytes]
          /\ result' = path
          /\ fault' = FALSE
       \/ /\ wr' = "open_failed"
          /\ fs' = fs
          /\ result' = MultilingualExcept.result
          /\ fault' = MultilingualExcept.fault
       \/ /\ wr' = "write_failed"
          /\ \E p \in Prefixes(audio_bytes) : fs' = [fs EXCEPT ![path] = p]
          /\ result' = MultilingualExcept.result
          /\ fault' = MultilingualExcept.fault
    /\ events' = Append(events, "write")
    /\ pc' = "mdone"
    /\ UNCHANGED <<client, now, args, audio_bytes, sdk, rest, fs0>>
    /\ UNCHANGED <<topVars, batchVars, streamVars>>
    /\ UNCHANGED validateVars

\* --------------------------------------------------------------- validate_text
Char == {" ", "x"}
\* the characters str.strip() removes
Whitespace == {" "}

\* def validate_text(self, text, max_length=5000)
DefaultMaxLength == 5000

RECURSIVE LStrip(_)
LStrip(t) ==
    IF t # <<>> /\ Head(t) \in Whitespace THEN LStrip(Tail(t)) ELSE t

RECURSIVE RStrip(_)
RStrip(t) ==
    IF t # <<>> /\ t[Len(t)] \in Whitespace THEN RStrip(SubSeq(t, 1, Len(t) - 1)) ELSE t

\* text.strip()
Strip(t) == RStrip(LStrip(t))

DigitChars == <<"0", "1", "2", "3", "4", "5", "6", "7", "8", "9">>

\* str(n) for n >= 0, as the sequence of its decimal digits
RECURSIVE Digits(_)
Digits(n) ==
    IF n < 10 THEN <<DigitChars[n + 1]>>
    ELSE Append(Digits(n \div 10), DigitChars[(n % 10) + 1])

\* a comparison with >= where the code has >
validate_text_AtLeast(text, max_length) ==
    IF text = <<>> \/ Strip(text) = <<>>
    THEN [valid |-> FALSE, message |-> <<"Text is empty">>]
    ELSE IF Len(text) >= max_length
    THEN [valid |-> FALSE,
          message |-> <<"Text too long (">> \o Digits(Len(text))
                      \o <<" chars). Maximum: ">> \o Digits(max_length)]
    ELSE [valid |-> TRUE, message |-> <<"Text valid">>]

\* validate_text: (is_valid, message), the message as its literal pieces and
\* the digits of the formatted numbers
validate_text(text, max_length) ==
    IF text = <<>> \/ Strip(text) = <<>>
    THEN [valid |-> FALSE, message |-> <<"Text is empty">>]
    ELSE IF Len(text) > max_length
    THEN [valid |-> FALSE,
          message |-> <<"Text too long (">> \o Digits(Len(text))
                      \o <<" chars). Maximum: ">> \o Digits(max_length)]
    ELSE [valid |-> TRUE, message |-> <<"Text valid">>]

LongText == [i \in 1..LongTextLen |-> "x"]
ValidateTexts == SeqsUpTo(Char, MaxTextLen) \cup {LongText}
MaxLengths == (0..MaxTextLen) \cup {DefaultMaxLength}

\* a caller invokes validate_text(text, max_length)
ValidateTextCall ==
    /\ \E t \in ValidateTexts, m \in MaxLengths :
           /\ vcall' = [called |-> TRUE, text |-> t, max_length |-> m]
           /\ vout' = validate_text(t, m)
    /\ UNCHANGED <<envVars, callVars, topVars, batchVars, streamVars>>

\* ------------------------------------------------------------ specifications
Next ==
    \/ Tick
    \/ SynthesizeCall
    \/ ConvertUnavailable
    \/ SdkConvertReturns
    \/ SdkConvertRaises
    \/ RestGenerate
    \/ NoAudio
    \/ SaveFile

\* one synthesize call
Spec == Init /\ [][Next]_vars

NextRepeat ==
    \/ Next
    \/ SynthesizeReturn

\* up to MaxCalls synthesize calls, one after the other
SpecRepeat == Init /\ [][NextRepeat]_vars

NextBatch ==
    \/ Tick
    \/ BatchCall
    \/ BatchIterate
    \/ ConvertUnavailable
    \/ SdkConvertReturns
    \/ SdkConvertRaises
    \/ RestGenerate
    \/ NoAudio
    \/ SaveFile
    \/ BatchCollect
    \/ BatchReturn

\* one batch_synthesize call, into an empty output directory
InitBatch == Init /\ fs = EmptyFs

SpecBatch == InitBatch /\ [][NextBatch]_vars

NextStream ==
    \/ StreamCall
    \/ StreamUnavailable
    \/ SdkStreamRaises
    \/ SdkStreamOpens
    \/ SdkStreamYield
    \/ SdkStreamEnds
    \/ SdkStreamBreaks
    \/ RestStreamPost
    \/ RestStreamChunk
    \/ RestStreamEnds

\* one synthesize_streaming generator, driven by its consumer
SpecStream == Init /\ [][NextStream]_vars

NextMultilingual ==
    \/ Tick
    \/ MultilingualCall
    \/ GenerateUnavailable
    \/ SdkGenerateReturns
    \/ SdkGenerateRaises
    \/ MultilingualRest
    \/ MultilingualNoAudio
    \/ MultilingualSave

\* one synthesize_multilingual call
SpecMultilingual == Init /\ [][NextMultilingual]_vars

NextValidate == ValidateTextCall

\* validate_text called with any of the bounded inputs
SpecValidate == Init /\ [][NextValidate]_vars

\* ------------------------------------------------------------------ claims
StructuredRaised == sdk.called /\ sdk.raised
StructuredAbsent == ~sdk.called
Rest200 == rest.called /\ ~rest.raised /\ rest.status = 200
RestFailed == rest.called /\ (rest.raised \/ rest.status # 200)

\* C1 as stated: whenever the structured call raised and the REST request
\* answered 200 with body B, synthesize returns a path whose file holds B.
C1_RestBodyAlwaysSaved ==
    (pc = "done" /\ StructuredRaised /\ Rest200)
        => (result # NoPath /\ fs[result] = rest.body)

\* C1 amended: whenever the structured call raised and the REST request
\* answered 200 with body B, the file write is attempted; if it succeeds
\* synthesize returns the target path and the file there holds exactly B, and
\* if it fails synthesize returns None.
C1_RestBodySavedWhenWritable ==
    (pc = "done" /\ StructuredRaised /\ Rest200)
        => /\ wr # "none"
           /\ wr = "ok" => /\ result # NoPath
                           /\ fs[result] = rest.body
                           /\ args.output_path # NoPath => result = args.output_path
           /\ wr # "ok" => result = NoPath

C1_Witness ==
    /\ pc = "done" /\ StructuredRaised /\ Rest200
    /\ rest.body # <<>>
    /\ wr = "ok"
    /\ result # NoPath
    /\ fs[result] = rest.body

\* the bytes a structured response stands for: its content, else itself,
\* else its chunks in iteration order
C2_Normalized(resp) ==
    IF resp.hasContent THEN resp.content
    ELSE IF resp.isBytes THEN resp.data
    ELSE Join(resp.chunks)

C2_StructuredDelivers ==
    /\ sdk.called /\ ~sdk.raised
    /\ \/ sdk.resp.hasContent /\ sdk.resp.content # NoBytes
       \/ ~sdk.resp.hasContent /\ sdk.resp.isBytes
       \/ ~sdk.resp.hasContent /\ ~sdk.resp.isBytes /\ sdk.resp.iterable
              /\ ~sdk.resp.raises

\* C2 as stated: whenever the structured call returns a response that
\* normalizes to bytes, synthesize returns a path whose file holds exactly
\* those bytes, and no REST request is made.
C2_StructuredBytesAlwaysSaved ==
    (pc = "done" /\ C2_StructuredDelivers)
        => /\ result # NoPath
           /\ fs[result] = C2_Normalized(sdk.resp)
           /\ ~rest.called

\* C2 amended: whenever the structured call returns a response that
\* normalizes to bytes, no REST request is made and the file write is
\* attempted; if it succeeds synthesize returns a path whose file holds
\* exactly the normalized bytes, and if it fails synthesize returns None.
C2_StructuredBytesSavedWhenWritable ==
    (pc = "done" /\ C2_StructuredDelivers)
        => /\ ~rest.called
           /\ wr # "none"
           /\ wr = "ok" => /\ result # NoPath
                           /\ fs[result] = C2_Normalized(sdk.resp)
           /\ wr # "ok" => result = NoPath

C2_Witness ==
    /\ pc = "done" /\ C2_StructuredDelivers
    /\ ~sdk.resp.hasContent /\ sdk.resp.iterable
    /\ Len(sdk.resp.chunks) = 2
    /\ sdk.resp.chunks[1] # sdk.resp.chunks[2]
    /\ wr = "ok"
    /\ result # NoPath
    /\ fs[result] = sdk.resp.chunks[1] \o sdk.resp.chunks[2]

\* C3: when the structured call is absent or raises and the REST request
\* raises or answers non-200, synthesize returns None and the file system is
\* as it was when the call began, also at an explicit output_path.
C3_BothFailNoFile ==
    (pc = "done" /\ (StructuredAbsent \/ StructuredRaised) /\ RestFailed)
        => /\ result = NoPath
           /\ wr = "none"
           /\ fs = fs0

C3_Witness ==
    /\ pc = "done" /\ StructuredRaised /\ RestFailed
    /\ rest.status = 401 /\ rest.body # <<>>
    /\ args.output_path = CustomPath
    /\ fs[CustomPath] \in Bytes \ {<<>>}
    /\ result = NoPath

\* text.strip() == ""
IsBlank(t) == \A i \in 1..Len(t) : t[i] = " "
InvalidInput(a) == IsBlank(a.text) \/ a.voice_id = ""

\* C4: a call with blank text or an invalid voice id issues no structured
\* call and no REST request, and returns None.
C4_InvalidInputRejected ==
    (pc # "idle" /\ InvalidInput(args))
        => /\ events = <<>>
           /\ pc = "done" => result = NoPath

\* C5: when the structured call returns a response that yields no bytes,
\* synthesize does not finish without having made the REST request.
C5_NoBytesFallsThrough ==
    (pc = "done" /\ sdk.called /\ ~sdk.raised /\ audio_bytes = NoBytes)
        => rest.called

\* C6: two successful calls with identical inputs and no explicit output
\* path return distinct paths, and the first call's file still holds what the
\* first call wrote.
C6_DistinctPaths ==
    (/\ pc = "done" /\ wr = "ok"
     /\ prev.valid /\ prev.result # NoPath
     /\ prev.args = args /\ args.output_path = NoPath)
        => /\ result # prev.result
           /\ fs[prev.result] = prev.bytes

\* C7: the chunks delivered by synthesize_streaming never contain a chunk of
\* the structured stream followed by a chunk of the REST stream.
C7_NeverConcatenated ==
    \A i, j \in DOMAIN yielded :
        ~(i < j /\ yielded[i].src = "sdk" /\ yielded[j].src = "rest")

\* C8: synthesize ends every call by returning: no exception leaves it, and
\* whenever the REST request failed or no bytes were obtained or the file
\* write failed, the value returned is None.
C8_FailureIsNone ==
    pc = "done"
        => /\ ~fault
           /\ (RestFailed \/ audio_bytes = NoBytes \/ wr \in {"open_failed", "write_failed"})
                  => result = NoPath
           /\ result # NoPath => wr = "ok"

C8_Witness ==
    /\ pc = "done" /\ StructuredRaised /\ Rest200
    /\ wr = "write_failed"
    /\ result = NoPath
    /\ ~fault

RECURSIVE PathsOfSuccesses(_)
PathsOfSuccesses(rs) ==
    IF rs = <<>> THEN <<>>
    ELSE IF Head(rs).ok THEN <<Head(rs).result>> \o PathsOfSuccesses(Tail(rs))
    ELSE PathsOfSuccesses(Tail(rs))

\* C9: batch_synthesize calls synthesize once per text, and returns the paths
\* of the calls that succeeded, in input order, without the failed ones; the
\* i-th text's path is a batch_i file.
C9_BatchKeepsSuccessesInOrder ==
    bpc = "done"
        => /\ Len(bresults) = Len(texts)
           /\ output_paths = PathsOfSuccesses(bresults)
           /\ \A i \in DOMAIN bresults :
                  IF bresults[i].ok
                  THEN bresults[i].result.prefix = "batch" /\ bresults[i].result.idx = i
                  ELSE bresults[i].result = NoPath

C9_Witness ==
    /\ bpc = "done"
    /\ Len(texts) = 2
    /\ ~bresults[1].ok /\ bresults[2].ok
    /\ fs[bresults[2].result] # <<>>
    /\ output_paths = <<bresults[2].result>>
    /\ output_paths[1].idx = 2

RECURSIVE JoinYielded(_)
JoinYielded(ys) ==
    IF ys = <<>> THEN <<>> ELSE Head(ys).chunk \o JoinYielded(Tail(ys))

\* C10: when the REST request of synthesize_streaming answered 200 and its
\* body was delivered completely, the chunks yielded, joined in order, are
\* exactly that body.
C10_RestBodyYielded ==
    (/\ spc = "done"
     /\ rest_stream.called /\ rest_stream.status = 200 /\ ~rest_stream.breaks)
        => JoinYielded(yielded) = Join(rest_stream.chunks)

\* the audio_bytes synthesize obtains from a capability answer, a structured
\* outcome and a REST outcome
SynthesizeAudio(has, so, ro) ==
    IF ~has THEN RestGenerateBytes(ro)
    ELSE IF so.raised THEN RestGenerateBytes(ro)
    ELSE ExtractBytes(so.resp)

\* the steps of synthesize obtain exactly SynthesizeAudio
SynthesizeAudioMatchesSteps ==
    pc \in {"check", "done"} => audio_bytes = SynthesizeAudio(client.convert, sdk, rest)

\* the structured outcomes C11 names: capability absent, call raises, byte
\* buffer, iterable of chunks, iteration raises
C11_NamedOutcome ==
    \/ ~sdk.called
    \/ sdk.raised
    \/ sdk.resp.isBytes
    \/ ~sdk.resp.hasContent /\ sdk.resp.iterable

\* C11: for each of these structured outcomes and every REST outcome,
\* synthesize_multilingual obtains the audio bytes synthesize obtains from the
\* same outcomes, so it succeeds exactly when synthesize would, and the file
\* it writes is a multilingual_ file holding those bytes.
C11_SameFallbackChain ==
    (pc = "mdone" /\ C11_NamedOutcome)
        => /\ audio_bytes = SynthesizeAudio(client.generate, sdk, rest)
           /\ result # NoPath => /\ result.prefix = "multilingual"
                                 /\ fs[result] = SynthesizeAudio(client.generate, sdk, rest)

\* sub occurs in msg as a run of consecutive elements
Contains(msg, sub) ==
    \E i \in 0..(Len(msg) - Len(sub)) : SubSeq(msg, i + 1, i + Len(sub)) = sub

\* C12: validate_text returns invalid with the "empty" message when the text
\* is empty or all whitespace, whatever its length; otherwise invalid with a
\* message containing the digits of len(text) and of max_length when
\* len(text) > max_length; otherwise valid, so also when len(text) = max_length.
C12_ValidateText ==
    vcall.called
        => IF IsBlank(vcall.text)
           THEN ~vout.valid /\ vout.message = <<"Text is empty">>
           ELSE IF Len(vcall.text) > vcall.max_length
           THEN /\ ~vout.valid
                /\ vout.message # <<"Text is empty">>
                /\ Contains(vout.message, Digits(Len(vcall.text)))
                /\ Contains(vout.message, Digits(vcall.max_length))
           ELSE vout.valid

C12_Witness ==
    /\ vcall.called
    /\ ~IsBlank(vcall.text)
    /\ Len(vcall.text) = vcall.max_length
    /\ Len(vcall.text) = MaxTextLen
    /\ vout.valid

Occurs(e) == \E i \in DOMAIN events : events[i] = e

\* C13: in a synthesize call the structured call is attempted at most once,
\* then the REST request at most once and only when the structured call was
\* absent or raised, then the file write at most once and only with bytes in
\* hand; a call that has obtained bytes ends with exactly one write attempt,
\* a call that has not with none.
C13_AttemptsOrdered ==
    /\ events \in {<<>>, <<"sdk">>, <<"rest">>, <<"sdk", "rest">>,
                   <<"sdk", "write">>, <<"rest", "write">>,
                   <<"sdk", "rest", "write">>}
    /\ Occurs("sdk") <=> sdk.called
    /\ Occurs("rest") <=> rest.called
    /\ Occurs("rest") => (~sdk.called \/ sdk.raised)
    /\ Occurs("write") => (audio_bytes # NoBytes /\ pc = "done")
    /\ pc = "done" => (Occurs("write") <=> audio_bytes # NoBytes)

C13_Witness ==
    /\ pc = "done"
    /\ events = <<"sdk", "rest", "write">>
    /\ sdk.raised /\ Rest200
    /\ wr = "ok"

\* C14: the bytes taken from a response that the structured call returned
\* are its content when it has a content accessor; else the buffer itself
\* when it is a byte buffer; else the chunks joined in iteration order when
\* it is an iterable that can be joined; else none, and in that last case
\* the exception handler (the REST request) is not entered.
C14_FirstMatchWins ==
    (sdk.called /\ ~sdk.raised)
        => LET r == sdk.resp
               joinable == r.iterable /\ ~r.raises
           IN  /\ r.hasContent => audio_bytes = r.content
               /\ (~r.hasContent /\ r.isBytes) => audio_bytes = r.data
               /\ (~r.hasContent /\ ~r.isBytes /\ joinable)
                      => audio_bytes = Join(r.chunks)
               /\ (~r.hasContent /\ ~r.isBytes /\ ~joinable)
                      => audio_bytes = NoBytes
               /\ ~rest.called
               /\ ~fault

\* a response with a content accessor that is iterable too: content wins
C14_Witness ==
    /\ sdk.called /\ ~sdk.raised
    /\ sdk.resp.hasContent /\ sdk.resp.iterable
    /\ sdk.resp.content = <<1>>
    /\ Join(sdk.resp.chunks) = <<0>>
    /\ audio_bytes = <<1>>
====
